---- MODULE Spec2Model ----
(***************************************************************************)
(* Model of boggle.py: the dictionary / prefix index, the breadth-first    *)
(* word search (find_all_words), scoring, and the session handled by the   *)
(* main loop (tile clicks, "Check Word", "Give Up", the timed reveal and   *)
(* the automatic reset).                                                   *)
(*                                                                         *)
(* Words are sequences of one-character strings.  Positions are the        *)
(* 0-based (row, col) pairs of the program; board[r][c] of the program is  *)
(* board[r+1][c+1] here.                                                   *)
(***************************************************************************)
EXTENDS Integers, Sequences, FiniteSets, TLC

VARIABLES
    board, dictionary, prefix_set,
    current_word, result_message, selected_positions,
    words_found_count, words_found_list, score,
    give_up, all_possible_words, word_display_index,
    last_word_switch_time, time_give_up_completed, completed_adding_all,
    current_time,
    found_words, queue, cell, pc

vars == <<board, dictionary, prefix_set,
          current_word, result_message, selected_positions,
          words_found_count, words_found_list, score,
          give_up, all_possible_words, word_display_index,
          last_word_switch_time, time_give_up_completed, completed_adding_all,
          current_time,
          found_words, queue, cell, pc>>

\* The variables of the session (everything main() keeps per round).
session == <<board, current_word, result_message, selected_positions,
             words_found_count, words_found_list, score,
             give_up, all_possible_words, word_display_index,
             last_word_switch_time, time_give_up_completed,
             completed_adding_all>>

\* The variables of one run of find_all_words.
search == <<found_words, queue, cell, pc>>

-----------------------------------------------------------------------------
(* Program constants *)

BOARD_SIZE == 4

display_interval == 1000

GracePeriod == 5000

MinWordLen == 3

-----------------------------------------------------------------------------
(* Bounds of the model *)

\* Longest selection a player builds (clicks beyond it are not generated).
MaxSel == 3

\* Longest found-words list at which "Check Word" clicks are still generated.
MaxFound == 2

\* Number of seconds of the modelled time line.
MaxFrames == 17

\* Number of seconds in which a frame may still start while the player is
\* selecting, and in which a Give Up click is still generated.
MaxIdleFrames == 1

\* Largest number of lines of a dictionary file that is loaded on its own.
MaxLines == 3

\* Longest word that is scored on its own.
MaxWordLen == 8

MaxTime == MaxFrames * 1000

MaxIdleTime == MaxIdleFrames * 1000

\* Time between two frames (clock.tick only guarantees a minimum).
FrameDeltas == {1000, 2000}

-----------------------------------------------------------------------------
(* Characters and strings *)

ascii_uppercase ==
    <<"A","B","C","D","E","F","G","H","I","J","K","L","M",
      "N","O","P","Q","R","S","T","U","V","W","X","Y","Z">>

ascii_lowercase ==
    <<"a","b","c","d","e","f","g","h","i","j","k","l","m",
      "n","o","p","q","r","s","t","u","v","w","x","y","z">>

IsUpperChar(ch) == \E i \in 1..26 : ascii_uppercase[i] = ch

IsLowerChar(ch) == \E i \in 1..26 : ascii_lowercase[i] = ch

\* Code point order restricted to the characters used: space, A-Z, a-z.
Ord(ch) ==
    IF IsUpperChar(ch) THEN 64 + (CHOOSE i \in 1..26 : ascii_uppercase[i] = ch)
    ELSE IF IsLowerChar(ch) THEN 96 + (CHOOSE i \in 1..26 : ascii_lowercase[i] = ch)
    ELSE 32

\* str.upper() on one character.
UpperChar(ch) ==
    IF IsLowerChar(ch)
    THEN ascii_uppercase[CHOOSE i \in 1..26 : ascii_lowercase[i] = ch]
    ELSE ch

\* str.upper()
Upper(s) == [i \in 1..Len(s) |-> UpperChar(s[i])]

IsSpace(ch) == ch = " "

RECURSIVE LStrip(_)
LStrip(s) ==
    IF s # <<>> /\ IsSpace(Head(s)) THEN LStrip(Tail(s)) ELSE s

RECURSIVE RStrip(_)
RStrip(s) ==
    IF s # <<>> /\ IsSpace(s[Len(s)])
    THEN RStrip(SubSeq(s, 1, Len(s) - 1))
    ELSE s

\* str.strip()
Strip(s) == RStrip(LStrip(s))

\* s < t for Python strings (lexicographic by code point).
RECURSIVE StrLess(_, _)
StrLess(s, t) ==
    IF t = <<>> THEN FALSE
    ELSE IF s = <<>> THEN TRUE
    ELSE IF Ord(Head(s)) < Ord(Head(t)) THEN TRUE
    ELSE IF Ord(Head(s)) > Ord(Head(t)) THEN FALSE
    ELSE StrLess(Tail(s), Tail(t))

\* sorted(S) for a set of strings.
RECURSIVE sorted(_)
sorted(S) ==
    IF S = {} THEN <<>>
    ELSE LET m == CHOOSE x \in S : \A y \in S \ {x} : StrLess(x, y)
         IN  <<m>> \o sorted(S \ {m})

\* Insert w into an ascending list, after the entries that are not larger.
RECURSIVE InsertSorted(_, _)
InsertSorted(w, lst) ==
    IF lst = <<>> THEN <<w>>
    ELSE IF StrLess(w, Head(lst)) THEN <<w>> \o lst
    ELSE <<Head(lst)>> \o InsertSorted(w, Tail(lst))

\* list.sort() for a list of strings.
RECURSIVE SortList(_)
SortList(lst) ==
    IF lst = <<>> THEN <<>>
    ELSE InsertSorted(Head(lst), SortList(Tail(lst)))

Range(f) == {f[i] : i \in DOMAIN f}

-----------------------------------------------------------------------------
(* Dictionary *)

\* The outcome of os.path.exists for a missing file.
NoFile == [exists |-> FALSE, lines |-> <<>>]

FileOf(lines) == [exists |-> TRUE, lines |-> lines]

load_dictionary(file) ==
    IF file.exists
    THEN {Upper(Strip(file.lines[i])) : i \in
             {j \in 1..Len(file.lines) : Upper(Strip(file.lines[j])) # <<>>}}
    ELSE {}

build_prefix_setProperOnly(dict) ==
    UNION {{SubSeq(word, 1, i + 1) : i \in 0..(Len(word) - 2)} : word \in dict}

build_prefix_set(dict) ==
    UNION {{SubSeq(word, 1, i + 1) : i \in 0..(Len(word) - 1)} : word \in dict}

-----------------------------------------------------------------------------
(* Scoring and adjacency *)

Abs(x) == IF x < 0 THEN -x ELSE x

is_adjacentOrthogonal(pos1, pos2) ==
    Abs(pos1[1] - pos2[1]) + Abs(pos1[2] - pos2[2]) = 1

is_adjacent(pos1, pos2) ==
    /\ Abs(pos1[1] - pos2[1]) <= 1
    /\ Abs(pos1[2] - pos2[2]) <= 1
    /\ ~(pos1[1] = pos2[1] /\ pos1[2] = pos2[2])

compute_pointsLongFromEight(word) ==
    LET length == Len(word)
    IN  IF length \in {3, 4} THEN 1
        ELSE IF length = 5 THEN 2
        ELSE IF length = 6 THEN 3
        ELSE IF length > 7 THEN 5
        ELSE 0

compute_points(word) ==
    LET length == Len(word)
    IN  IF length \in {3, 4} THEN 1
        ELSE IF length = 5 THEN 2
        ELSE IF length = 6 THEN 3
        ELSE IF length > 6 THEN 5
        ELSE 0

-----------------------------------------------------------------------------
(* find_all_words: the helpers of one loop iteration *)

Rows(b) == Len(b)

Cols(b) == IF Rows(b) # 0 THEN Len(b[1]) ELSE 0

\* board[r][c] for a 0-based position.
LetterAt(b, pos) == b[pos[1] + 1][pos[2] + 1]

\* The positions of the board.
Positions(b) == {<<r, c>> : r \in 0..(Rows(b) - 1), c \in 0..(Cols(b) - 1)}

\* The tuple appended for a start cell.
StartEntry(b, r, c) ==
    [pos |-> <<r, c>>, word |-> <<b[r + 1][c + 1]>>, visited |-> {<<r, c>>}]

\* "len(current_word) >= 3 and current_word in dictionary"
IsRecorded(word, dict) == Len(word) >= MinWordLen /\ word \in dict

\* "0 <= nr < rows and 0 <= nc < cols and (nr, nc) not in visited"
CanVisitNoVisitedCheck(rows, cols, nr, nc, visited) ==
    /\ 0 <= nr /\ nr < rows
    /\ 0 <= nc /\ nc < cols

CanVisit(rows, cols, nr, nc, visited) ==
    /\ 0 <= nr /\ nr < rows
    /\ 0 <= nc /\ nc < cols
    /\ <<nr, nc>> \notin visited

\* The k-th (k = 0..8) cell of the two nested range() loops around a cell.
WindowCell(pos, k) == <<pos[1] - 1 + (k \div 3), pos[2] - 1 + (k % 3)>>

\* The entries the inner loops append for window cells k..8, in loop order.
RECURSIVE ExpandFrom(_, _, _, _)
ExpandFrom(b, prefixes, entry, k) ==
    IF k > 8 THEN <<>>
    ELSE LET n        == WindowCell(entry.pos, k)
             rest     == ExpandFrom(b, prefixes, entry, k + 1)
         IN  IF CanVisit(Rows(b), Cols(b), n[1], n[2], entry.visited)
             THEN LET new_word == entry.word \o <<LetterAt(b, n)>>
                  IN  IF new_word \in prefixes
                      THEN <<[pos     |-> n,
                              word    |-> new_word,
                              visited |-> entry.visited \cup {n}]>> \o rest
                      ELSE rest
             ELSE rest

\* What processing one popped entry appends to the queue.
Expand(b, prefixes, entry) ==
    IF entry.word \in prefixes THEN ExpandFrom(b, prefixes, entry, 0) ELSE <<>>

\* What processing one popped entry adds to found_words.
Record(dict, entry) ==
    IF IsRecorded(entry.word, dict) THEN {entry.word} ELSE {}

\* The while loop: run the queue q to exhaustion, starting from found set f.
RECURSIVE DrainQueue(_, _, _, _, _)
DrainQueue(b, dict, prefixes, q, f) ==
    IF q = <<>> THEN f
    ELSE DrainQueue(b, dict, prefixes,
                    Tail(q) \o Expand(b, prefixes, Head(q)),
                    f \cup Record(dict, Head(q)))

\* The two for loops over the start cells k .. rows*cols-1 (row-major).
RECURSIVE SearchCells(_, _, _, _, _)
SearchCells(b, dict, prefixes, k, f) ==
    IF k >= Rows(b) * Cols(b) THEN f
    ELSE SearchCells(b, dict, prefixes, k + 1,
                     DrainQueue(b, dict, prefixes,
                                <<StartEntry(b, k \div Cols(b), k % Cols(b))>>,
                                f))

\* find_all_words as a function of its arguments.
find_all_words(b, dict, prefixes) ==
    sorted(SearchCells(b, dict, prefixes, 0, {}))

-----------------------------------------------------------------------------
(* Inputs of the session: dictionary files, boards, clicks *)

\* The contents of dictionary.txt the model starts from.
DictionaryFiles ==
    { NoFile,
      FileOf(<<>>),
      FileOf(<< <<" ">>, <<>> >>),
      FileOf(<< <<"a","t">>, <<"c","a","t">>, <<" ","C","A","T","S"," ">>,
                <<>>, <<"C","a","r","s">>, <<"C","A","T">>,
                <<"a","c","t">> >>) }

\* The boards the random draws of create_board are sampled from.
SampleBoards ==
    { << <<"C","A","T","S">>, <<"O","R","E","N">>,
         <<"D","I","L","M">>, <<"B","U","G","Y">> >>,
      << <<"C","A","T","E">>, <<"S","R","A","N">>,
         <<"D","I","L","M">>, <<"B","U","G","Y">> >> }

\* create_board(size): a size x size board of uppercase letters.
create_board(size) ==
    {b \in SampleBoards :
        /\ Len(b) = size
        /\ \A r \in 1..size :
              /\ Len(b[r]) = size
              /\ \A c \in 1..size : IsUpperChar(b[r][c])}

\* The tiles the modelled player clicks on.
ClickTargets == {<<0,0>>, <<0,1>>, <<0,2>>, <<1,1>>, <<1,2>>}

-----------------------------------------------------------------------------
(* The session: values and conditions of the handlers *)

NoMessage == [kind |-> "", word |-> <<>>]

ValidMessage(word) == [kind |-> "valid", word |-> word]

InvalidMessage(word) == [kind |-> "invalid", word |-> word]

NoWordMessage == [kind |-> "no word", word |-> <<>>]

\* time_give_up_completed is None or a time.
None == <<>>

Some(t) == <<t>>

\* The search is not running (the session specification never steps it).
SearchIdle ==
    /\ found_words = {}
    /\ queue = <<>>
    /\ cell = 0
    /\ pc = "idle"

\* The assignments of reset_game_state, for a drawn board.
ResetToKeepingRevealList(new_board) ==
    /\ board' = new_board
    /\ current_word' = <<>>
    /\ result_message' = NoMessage
    /\ selected_positions' = <<>>
    /\ words_found_count' = 0
    /\ words_found_list' = <<>>
    /\ score' = 0
    /\ give_up' = FALSE
    /\ all_possible_words' = all_possible_words
    /\ word_display_index' = word_display_index
    /\ last_word_switch_time' = 0
    /\ time_give_up_completed' = None
    /\ completed_adding_all' = FALSE

ResetToKeepingScore(new_board) ==
    /\ board' = new_board
    /\ current_word' = <<>>
    /\ result_message' = NoMessage
    /\ selected_positions' = <<>>
    /\ words_found_count' = 0
    /\ words_found_list' = <<>>
    /\ score' = score
    /\ give_up' = FALSE
    /\ all_possible_words' = <<>>
    /\ word_display_index' = 0
    /\ last_word_switch_time' = 0
    /\ time_give_up_completed' = None
    /\ completed_adding_all' = FALSE

ResetTo(new_board) ==
    /\ board' = new_board
    /\ current_word' = <<>>
    /\ result_message' = NoMessage
    /\ selected_positions' = <<>>
    /\ words_found_count' = 0
    /\ words_found_list' = <<>>
    /\ score' = 0
    /\ give_up' = FALSE
    /\ all_possible_words' = <<>>
    /\ word_display_index' = 0
    /\ last_word_switch_time' = 0
    /\ time_give_up_completed' = None
    /\ completed_adding_all' = FALSE

reset_game_state == \E new_board \in create_board(BOARD_SIZE) : ResetTo(new_board)

\* Lines 264, 274-276: the click on tile pos extends the selection.
TileAcceptedNoRepeatCheck(gu, sel, pos) ==
    /\ ~gu
    /\ (sel = <<>> \/ is_adjacent(sel[Len(sel)], pos))

TileAcceptedNoAdjacencyCheck(gu, sel, pos) ==
    /\ ~gu
    /\ pos \notin Range(sel)

TileAccepted(gu, sel, pos) ==
    /\ ~gu
    /\ pos \notin Range(sel)
    /\ (sel = <<>> \/ is_adjacent(sel[Len(sel)], pos))

\* Line 283: the click on "Check Word" is handled.
CheckAcceptedAlways(gu) == TRUE

CheckAccepted(gu) == ~gu

\* Line 300: the click on "Give Up" is handled.
GiveUpAccepted(gu) == ~gu

\* Line 286: the submitted word is credited.
SubmitCreditedAlways(word, dict) == TRUE

SubmitCredited(word, dict) == Upper(word) \in dict

\* Line 378: the next word is due.
IntervalElapsedInclusive(now, last) == now - last >= display_interval

IntervalElapsedAtOnce(now, last) == now - last >= 0

IntervalElapsed(now, last) == now - last > display_interval

\* Line 400: the grace period after the last word is over.
GraceElapsedAtOnce(now, completed) == now - completed >= 0

GraceElapsed(now, completed) == now - completed > GracePeriod

\* Line 382: the revealed word is new to the found list.
RevealIsNewAlways(word, lst) == TRUE

RevealIsNewNever(word, lst) == FALSE

RevealIsNew(word, lst) == word \notin Range(lst)

-----------------------------------------------------------------------------
(* The session: the main loop *)

\* After construction: lines 204-215, and the first frame reads the clock.
Init ==
    /\ \E file \in DictionaryFiles : dictionary = load_dictionary(file)
    /\ prefix_set = build_prefix_set(dictionary)
    /\ board \in create_board(BOARD_SIZE)
    /\ current_word = <<>>
    /\ result_message = NoMessage
    /\ selected_positions = <<>>
    /\ words_found_count = 0
    /\ words_found_list = <<>>
    /\ score = 0
    /\ give_up = FALSE
    /\ all_possible_words = <<>>
    /\ word_display_index = 0
    /\ last_word_switch_time = 0
    /\ time_give_up_completed = None
    /\ completed_adding_all = FALSE
    /\ current_time = 0
    /\ SearchIdle

\* Lines 264-280: a left click on the tile at pos.
ClickTile(pos) ==
    /\ pc = "idle"
    /\ pos \in Positions(board)
    /\ Len(selected_positions) < MaxSel
    /\ IF TileAccepted(give_up, selected_positions, pos)
       THEN /\ current_word' = current_word \o <<LetterAt(board, pos)>>
            /\ selected_positions' = Append(selected_positions, pos)
            /\ result_message' = NoMessage
       ELSE UNCHANGED <<current_word, selected_positions, result_message>>
    /\ UNCHANGED <<board, dictionary, prefix_set, words_found_count,
                   words_found_list, score, give_up, all_possible_words,
                   word_display_index, last_word_switch_time,
                   time_give_up_completed, completed_adding_all,
                   current_time, search>>

\* Lines 283-297: a left click on the "Check Word" button.
ClickCheckWord ==
    /\ pc = "idle"
    /\ Len(words_found_list) < MaxFound
    /\ IF CheckAccepted(give_up)
       THEN /\ IF current_word # <<>>
               THEN LET word_upper == Upper(current_word)
                    IN  IF SubmitCredited(current_word, dictionary)
                        THEN /\ result_message' = ValidMessage(current_word)
                             /\ words_found_count' = words_found_count + 1
                             /\ words_found_list' =
                                    Append(words_found_list, word_upper)
                             /\ score' = score + compute_points(word_upper)
                        ELSE /\ result_message' = InvalidMessage(current_word)
                             /\ UNCHANGED <<words_found_count,
                                            words_found_list, score>>
               ELSE /\ result_message' = NoWordMessage
                    /\ UNCHANGED <<words_found_count, words_found_list, score>>
            /\ current_word' = <<>>
            /\ selected_positions' = <<>>
       ELSE UNCHANGED <<result_message, words_found_count, words_found_list,
                        score, current_word, selected_positions>>
    /\ UNCHANGED <<board, dictionary, prefix_set, give_up, all_possible_words,
                   word_display_index, last_word_switch_time,
                   time_give_up_completed, completed_adding_all,
                   current_time, search>>

\* Lines 300-309: a left click on the "Give Up" button.
ClickGiveUp ==
    /\ pc = "idle"
    /\ current_time <= MaxIdleTime
    /\ IF GiveUpAccepted(give_up)
       THEN /\ give_up' = TRUE
            /\ all_possible_words' =
                   find_all_words(board, dictionary, prefix_set)
            /\ word_display_index' = 0
            /\ last_word_switch_time' = current_time
            /\ time_give_up_completed' = None
            /\ completed_adding_all' = FALSE
       ELSE UNCHANGED <<give_up, all_possible_words, word_display_index,
                        last_word_switch_time, time_give_up_completed,
                        completed_adding_all>>
    /\ UNCHANGED <<board, dictionary, prefix_set, current_word, result_message,
                   selected_positions, words_found_count, words_found_list,
                   score, current_time, search>>

\* Lines 379-391: the word at the cursor is shown and credited.
RevealNextWord ==
    LET displayed_word == all_possible_words[word_display_index + 1]
    IN  /\ IF RevealIsNew(displayed_word, words_found_list)
           THEN /\ words_found_list' =
                       SortList(Append(words_found_list, displayed_word))
                /\ words_found_count' = words_found_count + 1
                /\ score' = score + compute_points(displayed_word)
           ELSE UNCHANGED <<words_found_list, words_found_count, score>>
        /\ word_display_index' = word_display_index + 1
        /\ last_word_switch_time' = current_time
        /\ UNCHANGED <<board, current_word, result_message, selected_positions,
                       give_up, all_possible_words, time_give_up_completed,
                       completed_adding_all>>

\* Lines 393-406: all words are shown; mark the end, reset after the grace
\* period.
RevealFinished ==
    LET completed_at == IF ~completed_adding_all
                        THEN current_time
                        ELSE time_give_up_completed[1]
    IN  IF GraceElapsed(current_time, completed_at)
        THEN reset_game_state
        ELSE /\ completed_adding_all' = TRUE
             /\ time_give_up_completed' = Some(completed_at)
             /\ UNCHANGED <<board, current_word, result_message,
                            selected_positions, words_found_count,
                            words_found_list, score, give_up,
                            all_possible_words, word_display_index,
                            last_word_switch_time>>

\* Lines 374-406: the "give up" word rotation at the end of a frame.
Rotation ==
    IF give_up /\ all_possible_words # <<>>
    THEN IF word_display_index < Len(all_possible_words)
         THEN IF IntervalElapsed(current_time, last_word_switch_time)
              THEN RevealNextWord
              ELSE UNCHANGED session
         ELSE RevealFinished
    ELSE UNCHANGED session

\* Lines 253-254, 374-406, 434-435: the frame ends with the word rotation and
\* the next frame reads the clock, delta milliseconds later.
Frame(delta) ==
    /\ pc = "idle"
    /\ current_time + delta <= MaxTime
    /\ give_up \/ current_time + delta <= MaxIdleTime
    /\ Rotation
    /\ current_time' = current_time + delta
    /\ UNCHANGED <<dictionary, prefix_set, search>>

Tick == \E delta \in FrameDeltas : Frame(delta)

Next ==
    \/ \E pos \in ClickTargets : ClickTile(pos)
    \/ ClickCheckWord
    \/ ClickGiveUp
    \/ Tick

Spec == Init /\ [][Next]_vars

\* The main loop keeps running frames.
FairSpec == Spec /\ WF_vars(Tick)

-----------------------------------------------------------------------------
(* find_all_words step by step: the call of line 303 on its own *)

\* Boards the search is run on (any rectangular list of rows is accepted).
SearchBoards ==
    { <<>>,
      << <<"A">> >>,
      << <<"T","O">>, <<"A","T">> >>,
      << <<"C","A","T">>, <<"S","A","C">> >>,
      << <<"A","T","S">> >> }

\* The words the dictionaries of the search are made of.
SearchWords ==
    { <<"A","T">>, <<"C","A","T">>, <<"T","A","T">>, <<"S","T","A">>,
      <<"S","A","T">>, <<"C","A","C","A">> }

SearchDictionaries == SUBSET SearchWords

\* Lines 94-96, entered from the Give Up handler (line 301 has run).
SearchInit ==
    /\ board \in SearchBoards
    /\ dictionary \in SearchDictionaries
    /\ prefix_set = build_prefix_set(dictionary)
    /\ current_word = <<>>
    /\ result_message = NoMessage
    /\ selected_positions = <<>>
    /\ words_found_count = 0
    /\ words_found_list = <<>>
    /\ score = 0
    /\ give_up = TRUE
    /\ all_possible_words = <<>>
    /\ word_display_index = 0
    /\ last_word_switch_time = 0
    /\ time_give_up_completed = None
    /\ completed_adding_all = FALSE
    /\ current_time = 0
    /\ found_words = {}
    /\ queue = <<>>
    /\ cell = 0
    /\ pc = "cells"

\* Lines 98-103: the next start cell (row-major) gets a fresh queue.
StartCell ==
    /\ pc = "cells"
    /\ cell < Rows(board) * Cols(board)
    /\ queue' = <<StartEntry(board, cell \div Cols(board), cell % Cols(board))>>
    /\ pc' = "bfs"
    /\ UNCHANGED <<found_words, cell, session, dictionary, prefix_set,
                   current_time>>

\* Lines 105-121: one iteration of the while loop.
ProcessEntry ==
    /\ pc = "bfs"
    /\ queue # <<>>
    /\ found_words' = found_words \cup Record(dictionary, Head(queue))
    /\ queue' = Tail(queue) \o Expand(board, prefix_set, Head(queue))
    /\ UNCHANGED <<cell, pc, session, dictionary, prefix_set, current_time>>

\* Line 105: the queue of this start cell is empty.
QueueEmpty ==
    /\ pc = "bfs"
    /\ queue = <<>>
    /\ cell' = cell + 1
    /\ pc' = "cells"
    /\ UNCHANGED <<found_words, queue, session, dictionary, prefix_set,
                   current_time>>

\* Line 123 and lines 303-309: the sorted result goes to the caller.
Return ==
    /\ pc = "cells"
    /\ cell >= Rows(board) * Cols(board)
    /\ pc' = "done"
    /\ all_possible_words' = sorted(found_words)
    /\ word_display_index' = 0
    /\ last_word_switch_time' = current_time
    /\ time_give_up_completed' = None
    /\ completed_adding_all' = FALSE
    /\ UNCHANGED <<found_words, queue, cell, board, dictionary, prefix_set,
                   current_word, result_message, selected_positions,
                   words_found_count, words_found_list, score, give_up,
                   current_time>>

SearchNext == StartCell \/ ProcessEntry \/ QueueEmpty \/ Return

SearchSpec == SearchInit /\ [][SearchNext]_vars

\* The call runs on: a sequential function is not suspended half way.
FairSearchSpec == SearchSpec /\ WF_vars(SearchNext)

-----------------------------------------------------------------------------
(* compute_points on its own: the statement of line 290 *)

\* The session fields as reset_game_state leaves them.
SessionFresh ==
    /\ current_word = <<>>
    /\ result_message = NoMessage
    /\ selected_positions = <<>>
    /\ words_found_count = 0
    /\ words_found_list = <<>>
    /\ score = 0
    /\ give_up = FALSE
    /\ all_possible_words = <<>>
    /\ word_display_index = 0
    /\ last_word_switch_time = 0
    /\ time_give_up_completed = None
    /\ completed_adding_all = FALSE

\* The words that are scored: every word of up to MaxWordLen letters over
\* two letters, in either case.
PointsWords ==
    UNION {[1..n -> {"A", "b"}] : n \in 0..MaxWordLen}

PointsInit ==
    /\ board \in create_board(BOARD_SIZE)
    /\ dictionary = {}
    /\ prefix_set = {}
    /\ current_word \in PointsWords
    /\ result_message = NoMessage
    /\ selected_positions = <<>>
    /\ words_found_count = 0
    /\ words_found_list = <<>>
    /\ score = 0
    /\ give_up = FALSE
    /\ all_possible_words = <<>>
    /\ word_display_index = 0
    /\ last_word_switch_time = 0
    /\ time_give_up_completed = None
    /\ completed_adding_all = FALSE
    /\ current_time = 0
    /\ found_words = {}
    /\ queue = <<>>
    /\ cell = 0
    /\ pc = "points"

\* Lines 285 and 290: score += compute_points(word_upper).
ScoreWord ==
    /\ pc = "points"
    /\ score' = score + compute_points(Upper(current_word))
    /\ pc' = "scored"
    /\ UNCHANGED <<board, dictionary, prefix_set, current_word, result_message,
                   selected_positions, words_found_count, words_found_list,
                   give_up, all_possible_words, word_display_index,
                   last_word_switch_time, time_give_up_completed,
                   completed_adding_all, current_time, found_words, queue,
                   cell>>

PointsNext == ScoreWord

PointsSpec == PointsInit /\ [][PointsNext]_vars

-----------------------------------------------------------------------------
(* The dictionary on its own: lines 204-205 *)

\* The lines the dictionary files are made of.
LinePool ==
    { <<"c","a","t">>, <<" ","C","A","T","S"," ">>, <<>>, <<" "," ">>,
      <<"C","a","r","s">>, <<"A","T">>, <<"a">>, <<"t","e","a"," ">>,
      <<" ","T","O">>, <<"C","A","T">> }

\* dictionary.txt: missing, or any file of up to MaxLines of these lines.
LexiconFiles ==
    {NoFile} \cup
    {FileOf(lines) : lines \in UNION {[1..n -> LinePool] : n \in 0..MaxLines}}

LexiconInit ==
    /\ board \in create_board(BOARD_SIZE)
    /\ dictionary = {}
    /\ prefix_set = {}
    /\ SessionFresh
    /\ current_time = 0
    /\ found_words = {}
    /\ queue = <<>>
    /\ cell = 0
    /\ pc = "load"

\* Line 204: dictionary = load_dictionary("dictionary.txt")
LoadDictionary ==
    /\ pc = "load"
    /\ \E file \in LexiconFiles : dictionary' = load_dictionary(file)
    /\ pc' = "prefixes"
    /\ UNCHANGED <<prefix_set, session, current_time, found_words, queue, cell>>

\* Line 205: prefix_set = build_prefix_set(dictionary)
BuildPrefixSet ==
    /\ pc = "prefixes"
    /\ prefix_set' = build_prefix_set(dictionary)
    /\ pc' = "built"
    /\ UNCHANGED <<dictionary, session, current_time, found_words, queue, cell>>

LexiconNext == LoadDictionary \/ BuildPrefixSet

LexiconSpec == LexiconInit /\ [][LexiconNext]_vars

-----------------------------------------------------------------------------
(* Reference definitions the claims are stated with *)

\* path is a sequence of distinct, consecutively adjacent positions of b.
IsSimplePath(b, path) ==
    /\ \A i \in 1..Len(path) : path[i] \in Positions(b)
    /\ \A i, j \in 1..Len(path) : i # j => path[i] # path[j]
    /\ \A i \in 1..(Len(path) - 1) :
          /\ Abs(path[i][1] - path[i + 1][1]) <= 1
          /\ Abs(path[i][2] - path[i + 1][2]) <= 1

\* The word the positions of path spell on b.
Spelled(b, path) == [i \in 1..Len(path) |-> LetterAt(b, path[i])]

\* Some simple path of b spells w.
HasPath(b, w) ==
    \E path \in [1..Len(w) -> Positions(b)] :
        IsSimplePath(b, path) /\ Spelled(b, path) = w

\* The words find_all_words is specified to return.
Discoverable(b, dict) ==
    {w \in dict : Len(w) >= 3 /\ HasPath(b, w)}

\* Sum of compute_points over a list / over a set of words.
RECURSIVE SumPoints(_)
SumPoints(lst) ==
    IF lst = <<>> THEN 0 ELSE compute_points(Head(lst)) + SumPoints(Tail(lst))

RECURSIVE SumPointsOfSet(_)
SumPointsOfSet(S) ==
    IF S = {} THEN 0
    ELSE LET w == CHOOSE x \in S : TRUE
         IN  compute_points(w) + SumPointsOfSet(S \ {w})

NoDuplicates(lst) == \A i, j \in 1..Len(lst) : i # j => lst[i] # lst[j]

-----------------------------------------------------------------------------
(* Claims *)

\* C1: when find_all_words returns, its result lists exactly the dictionary
\* words of length >= 3 that some simple path (distinct, consecutively
\* 8-adjacent positions) of the board spells; and the function
\* find_all_words used by the Give Up handler returns the same list.
C1_SearchExact ==
    pc = "done" =>
        /\ Range(all_possible_words) = Discoverable(board, dictionary)
        /\ all_possible_words = sorted(Discoverable(board, dictionary))
        /\ find_all_words(board, dictionary, prefix_set) = all_possible_words

\* A search has returned a word that has a path while the dictionary also
\* holds a word whose letters are on the board but that has no simple path.
C1_Witness ==
    /\ pc = "done"
    /\ all_possible_words # <<>>
    /\ \E w \in dictionary :
          /\ Len(w) >= 3
          /\ \A i \in 1..Len(w) : \E p \in Positions(board) : LetterAt(board, p) = w[i]
          /\ ~HasPath(board, w)

\* C2: a word is credited at most once: found-words never holds a word
\* twice and the score is the sum of the points of the distinct found words.
C2_NoDoubleCredit ==
    /\ NoDuplicates(words_found_list)
    /\ score = SumPointsOfSet(Range(words_found_list))

\* C3: once Give Up has been accepted, the frames that follow eventually
\* bring the session back to selecting, with everything cleared.
C3_RevealTerminates ==
    give_up ~> (/\ ~give_up
                /\ selected_positions = <<>>
                /\ current_word = <<>>
                /\ words_found_list = <<>>
                /\ score = 0)

\* A reveal that has at least one word to show does end with the reset (the
\* bounds of the time line leave room for it).
RevealOfWordsTerminates ==
    (give_up /\ all_possible_words # <<>>) ~> ~give_up

\* C4: a reveal step on a word that is already in found-words leaves the
\* list, the count and the score alone and moves only the cursor and the
\* last-advance time; on a new word the list gains exactly that word, once,
\* and the score grows by compute_points of it.
C4_IdempotentRevealCredit ==
    [][ (give_up /\ give_up' /\ word_display_index' # word_display_index) =>
         LET w == all_possible_words[word_display_index + 1]
         IN  /\ word_display_index' = word_display_index + 1
             /\ last_word_switch_time' = current_time
             /\ IF w \in Range(words_found_list)
                THEN /\ words_found_list' = words_found_list
                     /\ words_found_count' = words_found_count
                     /\ score' = score
                ELSE /\ Range(words_found_list') =
                            Range(words_found_list) \cup {w}
                     /\ Len(words_found_list') = Len(words_found_list) + 1
                     /\ words_found_count' = words_found_count + 1
                     /\ score' = score + compute_points(w)
       ]_vars

\* The reveal has just passed a word that the player had submitted (the
\* "valid" message of that submit is still shown) and the word is in the
\* list once.
C4_Witness ==
    /\ give_up
    /\ word_display_index >= 1
    /\ result_message = ValidMessage(all_possible_words[word_display_index])
    /\ Len(words_found_list) = 1
    /\ words_found_count = 1

\* C5: the selection is a simple path of the board and the current word is
\* the word it spells.
C5_SelectionIsSimplePath ==
    /\ \A i \in 1..Len(selected_positions) :
          selected_positions[i] \in Positions(board)
    /\ \A i, j \in 1..Len(selected_positions) :
          i # j => selected_positions[i] # selected_positions[j]
    /\ \A i \in 1..(Len(selected_positions) - 1) :
          is_adjacent(selected_positions[i], selected_positions[i + 1])
    /\ Len(current_word) = Len(selected_positions)
    /\ current_word = Spelled(board, selected_positions)

\* A selection of three tiles while a tile that is not adjacent to its last
\* tile is there to be clicked.
C5_Witness ==
    /\ Len(selected_positions) >= 3
    /\ \E pos \in ClickTargets :
          ~is_adjacent(selected_positions[Len(selected_positions)], pos)

\* The click on tile pos is one the program rejects.
TileRejected(pos) ==
    \/ give_up
    \/ pos \in Range(selected_positions)
    \/ /\ selected_positions # <<>>
       /\ ~is_adjacent(selected_positions[Len(selected_positions)], pos)

\* C6: a rejected tile click, and any tile, Check Word or Give Up click
\* during the reveal, changes nothing at all.
C6_RejectedAreNoOps ==
    [][ /\ \A pos \in ClickTargets :
              (ClickTile(pos) /\ TileRejected(pos)) => UNCHANGED vars
        /\ (ClickCheckWord /\ give_up) => UNCHANGED vars
        /\ (ClickGiveUp /\ give_up) => UNCHANGED vars
      ]_vars

\* During the reveal, with a word selected that a Check Word click would
\* otherwise take, a tile that would otherwise extend the selection, and a
\* Give Up click that would otherwise restart the reveal past its first word.
C6_Witness ==
    /\ give_up
    /\ word_display_index >= 1
    /\ current_word # <<>>
    /\ Len(selected_positions) < MaxSel
    /\ Len(words_found_list) < MaxFound
    /\ \E pos \in ClickTargets :
          TileAccepted(FALSE, selected_positions, pos)

\* C7: a handled Check Word click always clears the selection, and records
\* "no word" (nothing credited), "invalid" (nothing credited) or "valid".
C7_SubmitOutcomes ==
    [][ (ClickCheckWord /\ ~give_up) =>
          /\ selected_positions' = <<>>
          /\ current_word' = <<>>
          /\ current_word = <<>> =>
                /\ result_message' = NoWordMessage
                /\ UNCHANGED <<words_found_list, words_found_count, score>>
          /\ (current_word # <<>> /\ Upper(current_word) \notin dictionary) =>
                /\ result_message'.kind = "invalid"
                /\ UNCHANGED <<words_found_list, words_found_count, score>>
          /\ (current_word # <<>> /\ Upper(current_word) \in dictionary) =>
                result_message'.kind = "valid"
      ]_vars

\* An invalid word has just been submitted in a round in which a valid one
\* was credited before.
C7_Witness ==
    /\ ~give_up
    /\ result_message.kind = "invalid"
    /\ selected_positions = <<>>
    /\ words_found_list # <<>>

\* The word at the cursor is credited as by the reveal: the list holds it,
\* and count and score move together with the list.
RevealCredited ==
    LET w == all_possible_words[word_display_index + 1]
    IN  /\ w \in Range(words_found_list')
        /\ word_display_index' = word_display_index + 1
        /\ last_word_switch_time' = current_time

C9_ResetOnlyAfterGrace ==
    [][ /\ (give_up /\ ~give_up') =>
              /\ word_display_index = Len(all_possible_words)
              /\ completed_adding_all
              /\ time_give_up_completed # None
              /\ current_time - time_give_up_completed[1] > 5000
              /\ Range(all_possible_words) \subseteq Range(words_found_list)
              /\ words_found_list' = <<>>
              /\ score' = 0
        /\ dictionary' = dictionary
        /\ prefix_set' = prefix_set
      ]_vars

\* A session that is selecting at a time the clock only reaches during a
\* reveal: the automatic reset has happened.
C9_Witness ==
    /\ ~give_up
    /\ current_time > MaxIdleTime
    /\ dictionary # {}

PointsTable(n) ==
    CASE n < 3 -> 0
      [] n = 3 \/ n = 4 -> 1
      [] n = 5 -> 2
      [] n = 6 -> 3
      [] n > 6 -> 5

\* C11: compute_points gives the points of the scoring table for the length
\* of the word, whatever its letters: 0 below 3, 1 for 3 and 4, 2 for 5,
\* 3 for 6, 5 above 6; each length is in exactly one row of the table; and
\* scoring a word changes nothing but the score it is added to.
C11_PointsTable ==
    /\ \A n \in 0..(MaxWordLen + 1) :
          Cardinality({k \in 1..5 :
              \/ k = 1 /\ n < 3
              \/ k = 2 /\ n \in {3, 4}
              \/ k = 3 /\ n = 5
              \/ k = 4 /\ n = 6
              \/ k = 5 /\ n > 6}) = 1
    /\ pc = "scored" =>
          /\ score = PointsTable(Len(current_word))
          /\ score \in {0, 1, 2, 3, 5}
          /\ words_found_list = <<>>
          /\ words_found_count = 0
          /\ result_message = NoMessage

\* A word of seven letters has been scored.
C11_Witness ==
    /\ pc = "scored"
    /\ Len(current_word) = 7
    /\ score = 5

\* p is a leading part of w.
IsPrefixOf(p, w) ==
    /\ Len(p) <= Len(w)
    /\ \A i \in 1..Len(p) : p[i] = w[i]

\* C12: the prefix set built from a dictionary holds every non-empty leading
\* part of every word, the word itself included, and nothing else.
C12_PrefixSetExact ==
    pc = "built" =>
        /\ \A w \in dictionary : \A k \in 1..Len(w) :
              [i \in 1..k |-> w[i]] \in prefix_set
        /\ dictionary \subseteq prefix_set
        /\ \A p \in prefix_set :
              /\ p # <<>>
              /\ \E w \in dictionary : IsPrefixOf(p, w)

\* The prefix set of a dictionary of three words, one of four letters, one a
\* prefix of another, has been built.
C12_Witness ==
    /\ pc = "built"
    /\ Cardinality(dictionary) = 3
    /\ \E w \in dictionary : Len(w) = 4
    /\ \E v, w \in dictionary : v # w /\ IsPrefixOf(v, w)
    /\ Cardinality(prefix_set) > Cardinality(dictionary)

\* The positions of a BOARD_SIZE x BOARD_SIZE board.
GamePositions ==
    {<<r, c>> : r \in 0..(BOARD_SIZE - 1), c \in 0..(BOARD_SIZE - 1)}

\* The cells the two range() loops of the search accept around an entry.
Expanded(b, entry) ==
    {WindowCell(entry.pos, k) : k \in
        {j \in 0..8 : CanVisit(Rows(b), Cols(b),
                               WindowCell(entry.pos, j)[1],
                               WindowCell(entry.pos, j)[2],
                               entry.visited)}}

\* C13: is_adjacent holds exactly for two different positions whose rows and
\* columns differ by at most one, it is symmetric and irreflexive, and the
\* cells the search expands from a queue entry are exactly the unvisited
\* positions of the board that are is_adjacent to the entry's position.
C13_Adjacency ==
    /\ \A p, q \in GamePositions :
          /\ is_adjacent(p, q) <=>
                /\ q[1] \in {p[1] - 1, p[1], p[1] + 1}
                /\ q[2] \in {p[2] - 1, p[2], p[2] + 1}
                /\ q # p
          /\ is_adjacent(p, q) <=> is_adjacent(q, p)
          /\ ~is_adjacent(p, p)
    /\ is_adjacent(<<1, 1>>, <<2, 2>>)
    /\ ~is_adjacent(<<1, 1>>, <<1, 1>>)
    /\ ~is_adjacent(<<1, 1>>, <<3, 3>>)
    /\ \A i \in 1..Len(queue) :
          Expanded(board, queue[i]) =
             {q \in Positions(board) \ queue[i].visited :
                 is_adjacent(queue[i].pos, q)}

\* The queue holds an entry of two visited cells that has both a diagonal
\* neighbour to expand to and a window cell outside the board.
C13_Witness ==
    /\ pc = "bfs"
    /\ \E i \in 1..Len(queue) :
          /\ Cardinality(queue[i].visited) = 2
          /\ \E q \in Expanded(board, queue[i]) :
                q[1] # queue[i].pos[1] /\ q[2] # queue[i].pos[2]
          /\ \E k \in 0..8 : WindowCell(queue[i].pos, k) \notin Positions(board)

\* What holds of a queue entry of the search.
EntryBounded(entry) ==
    /\ Cardinality(entry.visited) = Len(entry.word)
    /\ Len(entry.word) <= Rows(board) * Cols(board)
    /\ entry.pos \in entry.visited
    /\ entry.visited \subseteq Positions(board)

\* C14: every queue entry has as many visited cells as letters, at most
\* rows*cols, and its own position among them; the entries one loop
\* iteration appends have strictly more visited cells than the entry they
\* extend; the queue of every start cell runs empty and the search returns.
C14_SearchTerminates ==
    /\ [](\A i \in 1..Len(queue) : EntryBounded(queue[i]))
    /\ [][ (pc = "bfs" /\ queue # <<>>) =>
              /\ Len(queue') >= Len(queue) - 1
              /\ \A i \in 1..(Len(queue) - 1) : queue'[i] = queue[i + 1]
              /\ \A i \in Len(queue)..Len(queue') :
                    /\ Head(queue).visited \subseteq queue'[i].visited
                    /\ Cardinality(queue'[i].visited) =
                          Cardinality(Head(queue).visited) + 1
         ]_vars
    /\ \A k \in 0..BOARD_SIZE * BOARD_SIZE :
          (pc = "bfs" /\ cell = k) ~> (queue = <<>> /\ cell = k)
    /\ <>(pc = "done")

\* The search has returned a word of four letters: entries were extended
\* three times in a row and every queue ran empty.
C14_Witness ==
    /\ pc = "done"
    /\ cell = Rows(board) * Cols(board)
    /\ \E i \in 1..Len(all_possible_words) : Len(all_possible_words[i]) = 4

\* lst is strictly ascending (so it has no duplicates).
Ascending(lst) ==
    \A i \in 1..(Len(lst) - 1) : StrLess(lst[i], lst[i + 1])

\* C15: an accepted Give Up click starts the reveal with the sorted,
\* duplicate-free result of the search on the current board, the cursor at
\* 0, the last-advance time at the time of the frame and no completion
\* mark; it leaves found-words, count, score and board alone; and the word
\* rotation of that same frame credits nothing.
C15_AcceptedGiveUp ==
    [][ /\ (~give_up /\ give_up') =>
              /\ all_possible_words' =
                    find_all_words(board, dictionary, prefix_set)
              /\ Range(all_possible_words') \subseteq dictionary
              /\ Ascending(all_possible_words')
              /\ word_display_index' = 0
              /\ last_word_switch_time' = current_time
              /\ current_time' = current_time
              /\ completed_adding_all' = FALSE
              /\ time_give_up_completed' = None
              /\ UNCHANGED <<words_found_list, words_found_count, score,
                             board, current_word, selected_positions,
                             result_message>>
        /\ (/\ give_up
            /\ word_display_index = 0
            /\ last_word_switch_time = current_time
            /\ current_time' # current_time) => UNCHANGED session
      ]_vars

\* Give Up has just been accepted, in a round with a word found by hand, and
\* the search returned two words.
C15_Witness ==
    /\ give_up
    /\ word_display_index = 0
    /\ last_word_switch_time = current_time
    /\ current_time > 0
    /\ Len(all_possible_words) = 2
    /\ words_found_list # <<>>
    /\ score >= 1

\* C16: the cursor stays within 0..len(all_possible_words); outside the
\* reveal the cursor is 0 and the list is empty; during the reveal the
\* cursor never goes back and moves by at most one per frame, the list and
\* the board are not changed, and the completion mark is set only with the
\* cursor at the end of the list.
C16_CursorDiscipline ==
    /\ [](/\ 0 <= word_display_index
          /\ word_display_index <= Len(all_possible_words)
          /\ ~give_up => (word_display_index = 0 /\ all_possible_words = <<>>)
          /\ completed_adding_all =>
                (give_up /\ word_display_index = Len(all_possible_words)))
    /\ [][ (give_up /\ give_up') =>
              /\ word_display_index' >= word_display_index
              /\ word_display_index' <= word_display_index + 1
              /\ word_display_index' # word_display_index =>
                    current_time' # current_time
              /\ all_possible_words' = all_possible_words
              /\ board' = board
              /\ (completed_adding_all' /\ ~completed_adding_all) =>
                    word_display_index = Len(all_possible_words)
         ]_vars

\* The reveal of a list of two words is complete and marked, with the cursor
\* at its end.
C16_Witness ==
    /\ give_up
    /\ completed_adding_all
    /\ Len(all_possible_words) = 2
    /\ word_display_index = 2

\* C17: during the reveal every word of the list below the cursor is in
\* found-words, and once the completion is marked found-words holds every
\* word the search finds on the current board.
C17_RevealedAreFound ==
    /\ give_up =>
          \A i \in 1..word_display_index :
              all_possible_words[i] \in Range(words_found_list)
    /\ completed_adding_all =>
          Range(find_all_words(board, dictionary, prefix_set))
              \subseteq Range(words_found_list)

\* The completion is marked after a reveal that had to add both words of
\* the search itself (the player had found a word the search does not list).
C17_Witness ==
    /\ give_up
    /\ completed_adding_all
    /\ Len(all_possible_words) = 2
    /\ Len(words_found_list) = 3
    /\ \E i \in 1..3 : Len(words_found_list[i]) = 2

\* C18: every word in found-words is a dictionary word, and every found
\* word of three or more letters is one the search finds on the current
\* board.
C18_FoundAreDiscoverable ==
    /\ Range(words_found_list) \subseteq dictionary
    /\ (\E i \in 1..Len(words_found_list) : Len(words_found_list[i]) >= 3) =>
          {w \in Range(words_found_list) : Len(w) >= 3} \subseteq
              Range(find_all_words(board, dictionary, prefix_set))

\* A word of three letters has just been credited by Check Word, in a game
\* whose dictionary also holds a word that the clicked tiles spell only
\* along a path with a jump.
C18_Witness ==
    /\ ~give_up
    /\ result_message.kind = "valid"
    /\ Len(result_message.word) = 3
    /\ result_message.word \in Range(words_found_list)
    /\ \E w \in dictionary :
          /\ Len(w) = 3
          /\ w \notin Range(find_all_words(board, dictionary, prefix_set))
          /\ \A i \in 1..3 : \E p \in ClickTargets : LetterAt(board, p) = w[i]

\* C19: the count is the number of entries of the found list and the score
\* is the sum of compute_points over its entries; between resets neither
\* the score nor the count goes down.
C19_Bookkeeping ==
    /\ [](/\ words_found_count = Len(words_found_list)
          /\ score = SumPoints(words_found_list))
    /\ [][ ~(give_up /\ ~give_up') =>
              /\ score' >= score
              /\ words_found_count' >= words_found_count
         ]_vars

\* A round after the first, with a word credited again.
C19_Witness ==
    /\ ~give_up
    /\ current_time > MaxIdleTime
    /\ words_found_count >= 1
    /\ score >= 1

====
